---- MODULE Spec2Model ----
(***************************************************************************)
(* The flask-restful resources of /v3/OS-FEDERATION                        *)
(* (keystone/api/os_federation.py): the identity provider, protocol,       *)
(* mapping and service provider registries, the federated projects and     *)
(* domains aggregators and the authentication bridge.                      *)
(*                                                                         *)
(* A python dict is a TLA+ function whose DOMAIN is the set of keys        *)
(* present; a python list is a sequence.  An exception is the name of its  *)
(* class; a handler's outcome is either that name or the name of the HTTP  *)
(* status it returns.                                                      *)
(***************************************************************************)
EXTENDS Integers, Sequences, FiniteSets, TLC

VARIABLES
    scope,        \* the resource family the run exercises
    federation,   \* the rows behind PROVIDERS.federation_api
    last,         \* the request being served: its inputs, calls and result
    procs         \* the two concurrent create requests (ConcSpec)

vars == <<scope, federation, last, procs>>

-----------------------------------------------------------------------------
(* Bounds and input domains *)

MaxLen == 2          \* longest list an assignment lookup returns
MaxHeaders == 2      \* most headers on a token pipeline response

IdpIds == {"idp1", "idp2"}
RemoteIds == {"r1", "r2"}
ProtocolIds == {"saml2", "methods"}
MappingIds == {"map1"}
SpIds == {"sp1"}

-----------------------------------------------------------------------------
(* Python dicts *)

EmptyDict == [k \in {} |-> TRUE]

\* d[k] = v: a later assignment to a key replaces the earlier one
DictSet(d, k, v) == (k :> v) @@ d

\* d.setdefault(k, v)
setdefault(d, k, v) == IF k \in DOMAIN d THEN d ELSE DictSet(d, k, v)

\* d.get(k, default)
DictGet(d, k, default) == IF k \in DOMAIN d THEN d[k] ELSE default

\* dict(d, **u): the keys of u replace those of d
DictMerge(d, u) == u @@ d

\* {k: d[k] for k in d if k in keys}
DictRestrict(d, keys) == [k \in (DOMAIN d) \cap keys |-> d[k]]

\* {k: d[k] for k in d if k != key}
DictDel(d, key) == [k \in (DOMAIN d) \ {key} |-> d[k]]

-----------------------------------------------------------------------------
(* Collaborators of the resources: keystone.common.rbac_enforcer,          *)
(* keystone.common.validation, keystone.server.flask and the federation    *)
(* backend behind PROVIDERS.federation_api.                                *)

\* what a handler hands back: the rows after it, the collaborator calls it
\* made in order, the HTTP status or the exception that ended it, the body
\* and the payloads it submitted to the token pipeline
Result(fed, calls, outcome, body) ==
    [fed |-> fed, calls |-> calls, outcome |-> outcome, body |-> body, sent |-> << >>]

\* what a backend call hands back: the rows after it, the exception it raised
\* ("None" when it returned) and the reference it returned
StoreResult(fed, raised, ref) == [fed |-> fed, raised |-> raised, ref |-> ref]

\* ks_flask.ResourceBase._normalize_arg: ':' and '-' of a key become '_'
_normalize_arg(k) == IF k = "remote-ids" THEN "remote_ids" ELSE k

\* ks_flask.ResourceBase._normalize_dict
_normalize_dict(d) ==
    [k \in {_normalize_arg(j) : j \in DOMAIN d} |->
        d[CHOOSE j \in DOMAIN d : _normalize_arg(j) = k]]

\* validation.lazy_validate against an object schema that names its
\* properties, the required ones, and allows no additional property
lazy_validate(properties, required, d) ==
    /\ required \subseteq DOMAIN d
    /\ DOMAIN d \subseteq properties

identity_provider_properties == {"enabled", "remote_ids", "description", "domain_id"}
protocol_properties == {"mapping_id"}
service_provider_properties ==
    {"enabled", "relay_state_prefix", "description", "auth_url", "sp_url"}

\* the remote ids an identity provider row claims
RemoteIdsOf(idp) == DictGet(idp, "remote_ids", {})

\* the remote ids claimed by the rows other than idp_id
RemoteIdsOfOthers(fed, idp_id) ==
    UNION {RemoteIdsOf(fed.idps[i]) : i \in (DOMAIN fed.idps) \ {idp_id}}

\* federation_api.create_idp: a unique-key insert on the id and on every
\* remote id, atomic
create_idp(fed, idp_id, idp) ==
    LET ref == DictSet(idp, "id", idp_id)
    IN  IF \/ idp_id \in DOMAIN fed.idps
           \/ RemoteIdsOf(idp) \cap RemoteIdsOfOthers(fed, idp_id) # {}
        THEN StoreResult(fed, "Conflict", EmptyDict)
        ELSE StoreResult([fed EXCEPT !.idps = DictSet(@, idp_id, ref)], "None", ref)

\* federation_api.update_idp: a partial merge; remote ids present in the
\* update are checked against every other row
update_idp(fed, idp_id, idp) ==
    IF idp_id \notin DOMAIN fed.idps
    THEN StoreResult(fed, "IdentityProviderNotFound", EmptyDict)
    ELSE LET ref == DictSet(DictMerge(fed.idps[idp_id], idp), "id", idp_id)
         IN  IF /\ "remote_ids" \in DOMAIN idp
                /\ idp.remote_ids \cap RemoteIdsOfOthers(fed, idp_id) # {}
             THEN StoreResult(fed, "Conflict", EmptyDict)
             ELSE StoreResult([fed EXCEPT !.idps = DictSet(@, idp_id, ref)],
                              "None", ref)

\* federation_api.delete_idp: removes the row and the protocols under it
delete_idp(fed, idp_id) ==
    IF idp_id \notin DOMAIN fed.idps
    THEN StoreResult(fed, "IdentityProviderNotFound", EmptyDict)
    ELSE StoreResult(
            [fed EXCEPT !.idps = DictDel(@, idp_id),
                        !.protocols = [k \in {j \in DOMAIN @ : j[1] # idp_id} |-> @[k]]],
            "None", EmptyDict)

\* federation_api.get_idp
get_idp(fed, idp_id) ==
    IF idp_id \in DOMAIN fed.idps
    THEN StoreResult(fed, "None", fed.idps[idp_id])
    ELSE StoreResult(fed, "IdentityProviderNotFound", EmptyDict)

\* whether a row passes the equality filters of the driver hints
MatchesHints(ref, hints) ==
    \A k \in DOMAIN hints : k \in DOMAIN ref /\ ref[k] = hints[k]

\* federation_api.list_idps(hints): the rows, as the set of them
list_idps(fed, hints) ==
    {fed.idps[i] : i \in {j \in DOMAIN fed.idps : MatchesHints(fed.idps[j], hints)}}

\* mutant: the protocol row is written without looking for its identity
\* provider
create_protocol_orphan(fed, idp_id, protocol_id, protocol) ==
    LET ref == DictSet(DictSet(protocol, "id", protocol_id), "idp_id", idp_id)
    IN  IF <<idp_id, protocol_id>> \in DOMAIN fed.protocols
        THEN StoreResult(fed, "Conflict", EmptyDict)
        ELSE StoreResult([fed EXCEPT !.protocols = DictSet(@, <<idp_id, protocol_id>>, ref)],
                         "None", ref)

\* federation_api.create_protocol: the identity provider must exist and the
\* protocol id must be new under it
create_protocol(fed, idp_id, protocol_id, protocol) ==
    LET ref == DictSet(DictSet(protocol, "id", protocol_id), "idp_id", idp_id)
    IN  IF idp_id \notin DOMAIN fed.idps
        THEN StoreResult(fed, "IdentityProviderNotFound", EmptyDict)
        ELSE IF <<idp_id, protocol_id>> \in DOMAIN fed.protocols
        THEN StoreResult(fed, "Conflict", EmptyDict)
        ELSE StoreResult([fed EXCEPT !.protocols = DictSet(@, <<idp_id, protocol_id>>, ref)],
                         "None", ref)

\* federation_api.get_protocol
get_protocol(fed, idp_id, protocol_id) ==
    IF idp_id \notin DOMAIN fed.idps
    THEN StoreResult(fed, "IdentityProviderNotFound", EmptyDict)
    ELSE IF <<idp_id, protocol_id>> \notin DOMAIN fed.protocols
    THEN StoreResult(fed, "FederatedProtocolNotFound", EmptyDict)
    ELSE StoreResult(fed, "None", fed.protocols[<<idp_id, protocol_id>>])

\* federation_api.update_protocol: a partial merge
update_protocol(fed, idp_id, protocol_id, protocol) ==
    LET got == get_protocol(fed, idp_id, protocol_id)
        ref == DictMerge(got.ref, protocol)
    IN  IF got.raised # "None" THEN got
        ELSE StoreResult([fed EXCEPT !.protocols = DictSet(@, <<idp_id, protocol_id>>, ref)],
                         "None", ref)

\* federation_api.delete_protocol
delete_protocol(fed, idp_id, protocol_id) ==
    LET got == get_protocol(fed, idp_id, protocol_id)
    IN  IF got.raised # "None" THEN got
        ELSE StoreResult([fed EXCEPT !.protocols = DictDel(@, <<idp_id, protocol_id>>)],
                         "None", EmptyDict)

\* federation_api.list_protocols(idp_id): the rows, as the set of them
list_protocols(fed, idp_id) ==
    {fed.protocols[k] : k \in {j \in DOMAIN fed.protocols : j[1] = idp_id}}

\* federation_api.create_mapping
create_mapping(fed, mapping_id, mapping) ==
    LET ref == DictSet(mapping, "id", mapping_id)
    IN  IF mapping_id \in DOMAIN fed.mappings
        THEN StoreResult(fed, "Conflict", EmptyDict)
        ELSE StoreResult([fed EXCEPT !.mappings = DictSet(@, mapping_id, ref)],
                         "None", ref)

\* federation_api.get_mapping
get_mapping(fed, mapping_id) ==
    IF mapping_id \in DOMAIN fed.mappings
    THEN StoreResult(fed, "None", fed.mappings[mapping_id])
    ELSE StoreResult(fed, "MappingNotFound", EmptyDict)

\* federation_api.update_mapping
update_mapping(fed, mapping_id, mapping) ==
    LET ref == DictSet(mapping, "id", mapping_id)
    IN  IF mapping_id \notin DOMAIN fed.mappings
        THEN StoreResult(fed, "MappingNotFound", EmptyDict)
        ELSE StoreResult([fed EXCEPT !.mappings = DictSet(@, mapping_id, ref)],
                         "None", ref)

\* federation_api.delete_mapping
delete_mapping(fed, mapping_id) ==
    IF mapping_id \notin DOMAIN fed.mappings
    THEN StoreResult(fed, "MappingNotFound", EmptyDict)
    ELSE StoreResult([fed EXCEPT !.mappings = DictDel(@, mapping_id)], "None", EmptyDict)

\* federation_api.list_mappings
list_mappings(fed) == {fed.mappings[i] : i \in DOMAIN fed.mappings}

\* federation_api.create_sp
create_sp(fed, sp_id, sp) ==
    LET ref == DictSet(sp, "id", sp_id)
    IN  IF sp_id \in DOMAIN fed.sps
        THEN StoreResult(fed, "Conflict", EmptyDict)
        ELSE StoreResult([fed EXCEPT !.sps = DictSet(@, sp_id, ref)], "None", ref)

\* federation_api.get_sp
get_sp(fed, sp_id) ==
    IF sp_id \in DOMAIN fed.sps
    THEN StoreResult(fed, "None", fed.sps[sp_id])
    ELSE StoreResult(fed, "ServiceProviderNotFound", EmptyDict)

\* federation_api.update_sp: a partial merge
update_sp(fed, sp_id, sp) ==
    IF sp_id \notin DOMAIN fed.sps
    THEN StoreResult(fed, "ServiceProviderNotFound", EmptyDict)
    ELSE LET ref == DictSet(DictMerge(fed.sps[sp_id], sp), "id", sp_id)
         IN  StoreResult([fed EXCEPT !.sps = DictSet(@, sp_id, ref)], "None", ref)

\* federation_api.delete_sp
delete_sp(fed, sp_id) ==
    IF sp_id \notin DOMAIN fed.sps
    THEN StoreResult(fed, "ServiceProviderNotFound", EmptyDict)
    ELSE StoreResult([fed EXCEPT !.sps = DictDel(@, sp_id)], "None", EmptyDict)

\* federation_api.list_sps(hints)
list_sps(fed, hints) ==
    {fed.sps[i] : i \in {j \in DOMAIN fed.sps : MatchesHints(fed.sps[j], hints)}}

\* the condition kinds a remote clause may use
ConditionTypes == {"type", "any_one_of", "not_any_of", "regex", "blacklist", "whitelist"}

\* utils.validate_mapping_structure on one rule: the remote clause is not
\* empty, every condition is of a known kind, and every placeholder {n} of
\* the local clause has an n-th capture of the remote clause
ValidRule(rule) ==
    /\ DOMAIN rule = {"local", "remote"}
    /\ Len(rule.remote) > 0
    /\ \A i \in 1..Len(rule.remote) : rule.remote[i] \in ConditionTypes
    /\ \A i \in 1..Len(rule.local) : rule.local[i] < Len(rule.remote)

\* utils.validate_mapping_structure: TRUE when it returns, FALSE when it
\* raises ValidationError
validate_mapping_structure(mapping) ==
    /\ DOMAIN mapping = {"rules"}
    /\ \A i \in 1..Len(mapping.rules) : ValidRule(mapping.rules[i])

\* CONF.saml.relay_state_prefix
CONF_saml_relay_state_prefix == "ss:mem:"

\* ks_flask.ResourceBase.filter_params: with no white-list nothing is removed
filter_params(public, ref) ==
    IF public = {} THEN ref ELSE DictRestrict(ref, public)

\* _ResourceBase.wrap_member: the self link, the related links, then the
\* filtered reference under the member key
wrap_member(member_key, public, related, ref) ==
    member_key :> filter_params(public, DictSet(ref, "links", {"self"} \cup related))

\* ks_flask.ResourceBase.wrap_collection: the references under the
\* collection key
wrap_collection(collection_key, refs) == collection_key :> refs

-----------------------------------------------------------------------------
(* IdentityProvidersResource *)

IdentityProvidersResource_public_parameters ==
    {"id", "enabled", "description", "remote_ids", "links", "domain_id"}

IdentityProvidersResource_wrap_member(ref) ==
    wrap_member("identity_provider", IdentityProvidersResource_public_parameters,
                {"protocols"}, ref)

\* GET/HEAD /OS-FEDERATION/identity_providers/{idp_id}
IdentityProvidersResource_get_idp(fed, idp_id, allow) ==
    IF ~allow THEN Result(fed, <<"enforce_call">>, "Forbidden", EmptyDict)
    ELSE LET r == get_idp(fed, idp_id)
             calls == <<"enforce_call", "get_idp">>
         IN  IF r.raised # "None" THEN Result(fed, calls, r.raised, EmptyDict)
             ELSE Result(fed, calls, "OK", IdentityProvidersResource_wrap_member(r.ref))

\* GET/HEAD /OS-FEDERATION/identity_providers
IdentityProvidersResource_list_idps(fed, hints, allow) ==
    IF ~allow THEN Result(fed, <<"enforce_call">>, "Forbidden", EmptyDict)
    ELSE LET refs == list_idps(fed, hints)
             filtered == {filter_params(IdentityProvidersResource_public_parameters, r) : r \in refs}
             linked == {DictSet(r, "links", {"self", "protocols"}) : r \in filtered}
         IN  Result(fed, <<"enforce_call", "list_idps">>, "OK",
                    wrap_collection("identity_providers", linked))

\* mutant: 'enabled' is set to False whether or not the caller gave it
IdentityProvidersResource_put_enabled_reset(fed, idp_id, request_body_json, allow) ==
    IF ~allow THEN Result(fed, <<"enforce_call">>, "Forbidden", EmptyDict)
    ELSE LET body == DictGet(request_body_json, "identity_provider", EmptyDict)
         IN  IF ~lazy_validate(identity_provider_properties, {}, body)
             THEN Result(fed, <<"enforce_call", "lazy_validate">>,
                         "ValidationError", EmptyDict)
             ELSE LET idp == DictSet(_normalize_dict(body), "enabled", FALSE)
                      r == create_idp(fed, idp_id, idp)
                      calls == <<"enforce_call", "lazy_validate", "create_idp">>
                  IN  IF r.raised # "None" THEN Result(fed, calls, r.raised, EmptyDict)
                      ELSE Result(r.fed, calls, "CREATED",
                                  IdentityProvidersResource_wrap_member(r.ref))

\* PUT /OS-FEDERATION/identity_providers/{idp_id}
IdentityProvidersResource_put(fed, idp_id, request_body_json, allow) ==
    IF ~allow THEN Result(fed, <<"enforce_call">>, "Forbidden", EmptyDict)
    ELSE LET body == DictGet(request_body_json, "identity_provider", EmptyDict)
         IN  IF ~lazy_validate(identity_provider_properties, {}, body)
             THEN Result(fed, <<"enforce_call", "lazy_validate">>,
                         "ValidationError", EmptyDict)
             ELSE LET idp == setdefault(_normalize_dict(body), "enabled", FALSE)
                      r == create_idp(fed, idp_id, idp)
                      calls == <<"enforce_call", "lazy_validate", "create_idp">>
                  IN  IF r.raised # "None" THEN Result(fed, calls, r.raised, EmptyDict)
                      ELSE Result(r.fed, calls, "CREATED",
                                  IdentityProvidersResource_wrap_member(r.ref))

\* mutant: the update calls the backend's create, as put does
IdentityProvidersResource_patch_creates(fed, idp_id, request_body_json, allow) ==
    IF ~allow THEN Result(fed, <<"enforce_call">>, "Forbidden", EmptyDict)
    ELSE LET body == DictGet(request_body_json, "identity_provider", EmptyDict)
         IN  IF ~lazy_validate(identity_provider_properties, {}, body)
             THEN Result(fed, <<"enforce_call", "lazy_validate">>,
                         "ValidationError", EmptyDict)
             ELSE LET idp == _normalize_dict(body)
                      r == create_idp(fed, idp_id, idp)
                      calls == <<"enforce_call", "lazy_validate", "create_idp">>
                  IN  IF r.raised # "None" THEN Result(fed, calls, r.raised, EmptyDict)
                      ELSE Result(r.fed, calls, "OK",
                                  IdentityProvidersResource_wrap_member(r.ref))

\* PATCH /OS-FEDERATION/identity_providers/{idp_id}
IdentityProvidersResource_patch(fed, idp_id, request_body_json, allow) ==
    IF ~allow THEN Result(fed, <<"enforce_call">>, "Forbidden", EmptyDict)
    ELSE LET body == DictGet(request_body_json, "identity_provider", EmptyDict)
         IN  IF ~lazy_validate(identity_provider_properties, {}, body)
             THEN Result(fed, <<"enforce_call", "lazy_validate">>,
                         "ValidationError", EmptyDict)
             ELSE LET idp == _normalize_dict(body)
                      r == update_idp(fed, idp_id, idp)
                      calls == <<"enforce_call", "lazy_validate", "update_idp">>
                  IN  IF r.raised # "None" THEN Result(fed, calls, r.raised, EmptyDict)
                      ELSE Result(r.fed, calls, "OK",
                                  IdentityProvidersResource_wrap_member(r.ref))

\* mutant: the row is deleted before the policy is asked
IdentityProvidersResource_delete_then_enforce(fed, idp_id, allow) ==
    LET r == delete_idp(fed, idp_id)
        calls == <<"delete_idp", "enforce_call">>
    IN  IF r.raised # "None" THEN Result(fed, <<"delete_idp">>, r.raised, EmptyDict)
        ELSE IF ~allow THEN Result(r.fed, calls, "Forbidden", EmptyDict)
        ELSE Result(r.fed, calls, "NO_CONTENT", EmptyDict)

\* DELETE /OS-FEDERATION/identity_providers/{idp_id}
IdentityProvidersResource_delete(fed, idp_id, allow) ==
    IF ~allow THEN Result(fed, <<"enforce_call">>, "Forbidden", EmptyDict)
    ELSE LET r == delete_idp(fed, idp_id)
             calls == <<"enforce_call", "delete_idp">>
         IN  IF r.raised # "None" THEN Result(fed, calls, r.raised, EmptyDict)
             ELSE Result(r.fed, calls, "NO_CONTENT", EmptyDict)

-----------------------------------------------------------------------------
(* IdentityProvidersProtocolsResource *)

IdentityProvidersProtocolsResource_public_parameters == {"id", "mapping_id", "links"}

\* _add_related_links sets links.identity_provider; wrap_member filters
IdentityProvidersProtocolsResource_wrap_member(ref) ==
    wrap_member("protocol", IdentityProvidersProtocolsResource_public_parameters,
                {"identity_provider"}, ref)

\* HEAD/GET /OS-FEDERATION/identity_providers/{idp_id}/protocols/{protocol_id}
IdentityProvidersProtocolsResource_get_protocol(fed, idp_id, protocol_id, allow) ==
    IF ~allow THEN Result(fed, <<"enforce_call">>, "Forbidden", EmptyDict)
    ELSE LET r == get_protocol(fed, idp_id, protocol_id)
             calls == <<"enforce_call", "get_protocol">>
         IN  IF r.raised # "None" THEN Result(fed, calls, r.raised, EmptyDict)
             ELSE Result(r.fed, calls, "OK", IdentityProvidersProtocolsResource_wrap_member(r.ref))

\* HEAD/GET /OS-FEDERATION/identity_providers/{idp_id}/protocols
IdentityProvidersProtocolsResource_list_protocols(fed, idp_id, allow) ==
    IF ~allow THEN Result(fed, <<"enforce_call">>, "Forbidden", EmptyDict)
    ELSE LET refs == list_protocols(fed, idp_id)
             linked == {DictSet(r, "links", {"self", "identity_provider"}) : r \in refs}
         IN  Result(fed, <<"enforce_call", "list_protocols">>, "OK",
                    wrap_collection("protocols", linked))

\* PUT /OS-FEDERATION/identity_providers/{idp_id}/protocols/{protocol_id}
IdentityProvidersProtocolsResource_put(fed, idp_id, protocol_id, request_body_json, allow) ==
    IF ~allow THEN Result(fed, <<"enforce_call">>, "Forbidden", EmptyDict)
    ELSE LET body == DictGet(request_body_json, "protocol", EmptyDict)
         IN  IF ~lazy_validate(protocol_properties, {"mapping_id"}, body)
             THEN Result(fed, <<"enforce_call", "lazy_validate">>,
                         "ValidationError", EmptyDict)
             ELSE LET protocol == _normalize_dict(body)
                      r == create_protocol(fed, idp_id, protocol_id, protocol)
                      calls == <<"enforce_call", "lazy_validate", "create_protocol">>
                  IN  IF r.raised # "None" THEN Result(fed, calls, r.raised, EmptyDict)
                      ELSE Result(r.fed, calls, "CREATED",
                                  IdentityProvidersProtocolsResource_wrap_member(r.ref))

\* PATCH /OS-FEDERATION/identity_providers/{idp_id}/protocols/{protocol_id}
IdentityProvidersProtocolsResource_patch(fed, idp_id, protocol_id, request_body_json, allow) ==
    IF ~allow THEN Result(fed, <<"enforce_call">>, "Forbidden", EmptyDict)
    ELSE LET protocol == DictGet(request_body_json, "protocol", EmptyDict)
         IN  IF ~lazy_validate(protocol_properties, {"mapping_id"}, protocol)
             THEN Result(fed, <<"enforce_call", "lazy_validate">>,
                         "ValidationError", EmptyDict)
             ELSE LET r == update_protocol(fed, idp_id, protocol_id, protocol)
                      calls == <<"enforce_call", "lazy_validate", "update_protocol">>
                  IN  IF r.raised # "None" THEN Result(fed, calls, r.raised, EmptyDict)
                      ELSE Result(r.fed, calls, "OK",
                                  IdentityProvidersProtocolsResource_wrap_member(r.ref))

\* DELETE /OS-FEDERATION/identity_providers/{idp_id}/protocols/{protocol_id}
IdentityProvidersProtocolsResource_delete(fed, idp_id, protocol_id, allow) ==
    IF ~allow THEN Result(fed, <<"enforce_call">>, "Forbidden", EmptyDict)
    ELSE LET r == delete_protocol(fed, idp_id, protocol_id)
             calls == <<"enforce_call", "delete_protocol">>
         IN  IF r.raised # "None" THEN Result(fed, calls, r.raised, EmptyDict)
             ELSE Result(r.fed, calls, "NO_CONTENT", EmptyDict)

-----------------------------------------------------------------------------
(* MappingResource *)

\* MappingResource has no _public_parameters and no related links
MappingResource_wrap_member(ref) == wrap_member("mapping", {}, {}, ref)

\* HEAD/GET /OS-FEDERATION/mappings/{mapping_id}
MappingResource_get_mapping(fed, mapping_id, allow) ==
    IF ~allow THEN Result(fed, <<"enforce_call">>, "Forbidden", EmptyDict)
    ELSE LET r == get_mapping(fed, mapping_id)
             calls == <<"enforce_call", "get_mapping">>
         IN  IF r.raised # "None" THEN Result(fed, calls, r.raised, EmptyDict)
             ELSE Result(r.fed, calls, "OK", MappingResource_wrap_member(r.ref))

\* HEAD/GET /OS-FEDERATION/mappings
MappingResource_list_mappings(fed, allow) ==
    IF ~allow THEN Result(fed, <<"enforce_call">>, "Forbidden", EmptyDict)
    ELSE Result(fed, <<"enforce_call", "list_mappings">>, "OK",
                wrap_collection("mappings", list_mappings(fed)))

\* mutant: the document is validated after the store has answered
MappingResource_put_validate_late(fed, mapping_id, request_body_json, allow) ==
    IF ~allow THEN Result(fed, <<"enforce_call">>, "Forbidden", EmptyDict)
    ELSE LET mapping == _normalize_dict(DictGet(request_body_json, "mapping", EmptyDict))
             r == create_mapping(fed, mapping_id, mapping)
         IN  IF r.raised # "None"
             THEN Result(fed, <<"enforce_call", "create_mapping">>, r.raised, EmptyDict)
             ELSE IF ~validate_mapping_structure(mapping)
             THEN Result(r.fed, <<"enforce_call", "create_mapping",
                                  "validate_mapping_structure">>,
                         "ValidationError", EmptyDict)
             ELSE Result(r.fed, <<"enforce_call", "create_mapping",
                                  "validate_mapping_structure">>,
                         "CREATED", MappingResource_wrap_member(r.ref))

\* PUT /OS-FEDERATION/mappings/{mapping_id}
MappingResource_put(fed, mapping_id, request_body_json, allow) ==
    IF ~allow THEN Result(fed, <<"enforce_call">>, "Forbidden", EmptyDict)
    ELSE LET mapping == _normalize_dict(DictGet(request_body_json, "mapping", EmptyDict))
         IN  IF ~validate_mapping_structure(mapping)
             THEN Result(fed, <<"enforce_call", "validate_mapping_structure">>,
                         "ValidationError", EmptyDict)
             ELSE LET r == create_mapping(fed, mapping_id, mapping)
                      calls == <<"enforce_call", "validate_mapping_structure",
                                 "create_mapping">>
                  IN  IF r.raised # "None" THEN Result(fed, calls, r.raised, EmptyDict)
                      ELSE Result(r.fed, calls, "CREATED",
                                  MappingResource_wrap_member(r.ref))

\* PATCH /OS-FEDERATION/mappings/{mapping_id}
MappingResource_patch(fed, mapping_id, request_body_json, allow) ==
    IF ~allow THEN Result(fed, <<"enforce_call">>, "Forbidden", EmptyDict)
    ELSE LET mapping == _normalize_dict(DictGet(request_body_json, "mapping", EmptyDict))
         IN  IF ~validate_mapping_structure(mapping)
             THEN Result(fed, <<"enforce_call", "validate_mapping_structure">>,
                         "ValidationError", EmptyDict)
             ELSE LET r == update_mapping(fed, mapping_id, mapping)
                      calls == <<"enforce_call", "validate_mapping_structure",
                                 "update_mapping">>
                  IN  IF r.raised # "None" THEN Result(fed, calls, r.raised, EmptyDict)
                      ELSE Result(r.fed, calls, "OK",
                                  MappingResource_wrap_member(r.ref))

\* DELETE /OS-FEDERATION/mappings/{mapping_id}
MappingResource_delete(fed, mapping_id, allow) ==
    IF ~allow THEN Result(fed, <<"enforce_call">>, "Forbidden", EmptyDict)
    ELSE LET r == delete_mapping(fed, mapping_id)
             calls == <<"enforce_call", "delete_mapping">>
         IN  IF r.raised # "None" THEN Result(fed, calls, r.raised, EmptyDict)
             ELSE Result(r.fed, calls, "NO_CONTENT", EmptyDict)

-----------------------------------------------------------------------------
(* ServiceProvidersResource *)

ServiceProvidersResource_public_parameters ==
    {"auth_url", "id", "enabled", "description", "links", "relay_state_prefix", "sp_url"}

ServiceProvidersResource_wrap_member(ref) ==
    wrap_member("service_provider", ServiceProvidersResource_public_parameters, {}, ref)

\* GET/HEAD /OS-FEDERATION/service_providers/{sp_id}
ServiceProvidersResource_get_service_provider(fed, sp_id, allow) ==
    IF ~allow THEN Result(fed, <<"enforce_call">>, "Forbidden", EmptyDict)
    ELSE LET r == get_sp(fed, sp_id)
             calls == <<"enforce_call", "get_sp">>
         IN  IF r.raised # "None" THEN Result(fed, calls, r.raised, EmptyDict)
             ELSE Result(r.fed, calls, "OK", ServiceProvidersResource_wrap_member(r.ref))

\* GET/HEAD /OS-FEDERATION/service_providers
ServiceProvidersResource_list_service_providers(fed, hints, allow) ==
    IF ~allow THEN Result(fed, <<"enforce_call">>, "Forbidden", EmptyDict)
    ELSE LET refs == {filter_params(ServiceProvidersResource_public_parameters, r) :
                         r \in list_sps(fed, hints)}
         IN  Result(fed, <<"enforce_call", "list_sps">>, "OK",
                    wrap_collection("service_providers", refs))

\* PUT /OS-FEDERATION/service_providers/{sp_id}
ServiceProvidersResource_put(fed, sp_id, request_body_json, allow) ==
    IF ~allow THEN Result(fed, <<"enforce_call">>, "Forbidden", EmptyDict)
    ELSE LET body == DictGet(request_body_json, "service_provider", EmptyDict)
         IN  IF ~lazy_validate(service_provider_properties, {}, body)
             THEN Result(fed, <<"enforce_call", "lazy_validate">>,
                         "ValidationError", EmptyDict)
             ELSE LET sp == setdefault(
                                setdefault(_normalize_dict(body), "enabled", FALSE),
                                "relay_state_prefix", CONF_saml_relay_state_prefix)
                      r == create_sp(fed, sp_id, sp)
                      calls == <<"enforce_call", "lazy_validate", "create_sp">>
                  IN  IF r.raised # "None" THEN Result(fed, calls, r.raised, EmptyDict)
                      ELSE Result(r.fed, calls, "CREATED",
                                  ServiceProvidersResource_wrap_member(r.ref))

\* PATCH /OS-FEDERATION/service_providers/{sp_id}
ServiceProvidersResource_patch(fed, sp_id, request_body_json, allow) ==
    IF ~allow THEN Result(fed, <<"enforce_call">>, "Forbidden", EmptyDict)
    ELSE LET body == DictGet(request_body_json, "service_provider", EmptyDict)
         IN  IF ~lazy_validate(service_provider_properties, {}, body)
             THEN Result(fed, <<"enforce_call", "lazy_validate">>,
                         "ValidationError", EmptyDict)
             ELSE LET sp == _normalize_dict(body)
                      r == update_sp(fed, sp_id, sp)
                      calls == <<"enforce_call", "lazy_validate", "update_sp">>
                  IN  IF r.raised # "None" THEN Result(fed, calls, r.raised, EmptyDict)
                      ELSE Result(r.fed, calls, "OK",
                                  ServiceProvidersResource_wrap_member(r.ref))

\* DELETE /OS-FEDERATION/service_providers/{sp_id}
ServiceProvidersResource_delete(fed, sp_id, allow) ==
    IF ~allow THEN Result(fed, <<"enforce_call">>, "Forbidden", EmptyDict)
    ELSE LET r == delete_sp(fed, sp_id)
             calls == <<"enforce_call", "delete_sp">>
         IN  IF r.raised # "None" THEN Result(fed, calls, r.raised, EmptyDict)
             ELSE Result(r.fed, calls, "NO_CONTENT", EmptyDict)

-----------------------------------------------------------------------------
(* _combine_lists_uniquely and the projects and domains resources *)

\* the keys of {x['id']: x for x in refs}, in insertion order: a key keeps
\* the place of its first occurrence
RECURSIVE DictKeys(_)
DictKeys(refs) ==
    IF refs = << >> THEN << >>
    ELSE LET front == SubSeq(refs, 1, Len(refs) - 1)
             x == refs[Len(refs)]
             keys == DictKeys(front)
         IN  IF \E i \in 1..Len(keys) : keys[i] = x.id THEN keys
             ELSE Append(keys, x.id)

\* {x['id']: x for x in refs}[k]: the last record with that id
DictValue(refs, k) ==
    refs[CHOOSE i \in 1..Len(refs) :
            /\ refs[i].id = k
            /\ \A j \in (i + 1)..Len(refs) : refs[j].id # k]

\* {x['id']: x for x in refs}.values()
DictValues(refs) ==
    LET keys == DictKeys(refs)
    IN  [i \in 1..Len(keys) |-> DictValue(refs, keys[i])]

\* a list is true when it is not empty
Truthy(list) == list # << >>

\* mutant: the dict is built whether or not a list is empty
_combine_lists_uniquely_always_dict(a, b) == DictValues(a \o b)

\* mutant: the lists are joined and nothing is removed
_combine_lists_uniquely_joined(a, b) == a \o b

_combine_lists_uniquely(a, b) ==
    IF Truthy(a) /\ Truthy(b)
    THEN DictValues(a \o b)
    ELSE IF Truthy(a) THEN a ELSE b

\* a call of PROVIDERS.assignment_api: the exception it raises ("None" when
\* it returns) and the list it returns
Lookup(raised, refs) == [raised |-> raised, refs |-> refs]

\* mutant: every exception of the user lookup is swallowed
OSFederationProjectResource_get_except_all(fed, auth_context, for_user, for_groups, allow) ==
    IF ~allow THEN Result(fed, <<"enforce_call">>, "Forbidden", EmptyDict)
    ELSE LET user_id == DictGet(auth_context, "user_id", "")
             group_ids == DictGet(auth_context, "group_ids", << >>)
             calls1 == IF user_id # "" THEN <<"enforce_call", "list_projects_for_user">>
                       ELSE <<"enforce_call">>
             user_refs == IF user_id # "" /\ for_user.raised = "None"
                          THEN for_user.refs ELSE << >>
             calls2 == IF Truthy(group_ids)
                       THEN Append(calls1, "list_projects_for_groups") ELSE calls1
             group_refs == IF Truthy(group_ids) THEN for_groups.refs ELSE << >>
         IN  IF Truthy(group_ids) /\ for_groups.raised # "None"
             THEN Result(fed, calls2, for_groups.raised, EmptyDict)
             ELSE Result(fed, calls2, "OK",
                         wrap_collection("projects",
                                         _combine_lists_uniquely(user_refs, group_refs)))

\* GET/HEAD /OS-FEDERATION/projects.  auth_context.get returns None for a missing
\* key; None, '' and [] are all false, and stand here as "" and << >>
OSFederationProjectResource_get(fed, auth_context, for_user, for_groups, allow) ==
    IF ~allow THEN Result(fed, <<"enforce_call">>, "Forbidden", EmptyDict)
    ELSE LET user_id == DictGet(auth_context, "user_id", "")
             group_ids == DictGet(auth_context, "group_ids", << >>)
             user_called == user_id # ""
             groups_called == Truthy(group_ids)
             calls1 == IF user_called THEN <<"enforce_call", "list_projects_for_user">>
                       ELSE <<"enforce_call">>
             user_refs == IF user_called /\ for_user.raised = "None"
                          THEN for_user.refs ELSE << >>
             calls2 == IF groups_called THEN Append(calls1, "list_projects_for_groups")
                       ELSE calls1
             group_refs == IF groups_called THEN for_groups.refs ELSE << >>
         IN  IF user_called /\ for_user.raised \notin {"None", "UserNotFound"}
             THEN Result(fed, calls1, for_user.raised, EmptyDict)
             ELSE IF groups_called /\ for_groups.raised # "None"
             THEN Result(fed, calls2, for_groups.raised, EmptyDict)
             ELSE Result(fed, calls2, "OK",
                         wrap_collection("projects",
                                         _combine_lists_uniquely(user_refs, group_refs)))

\* GET/HEAD /OS-FEDERATION/domains.  auth_context.get returns None for a missing
\* key; None, '' and [] are all false, and stand here as "" and << >>
OSFederationDomainResource_get(fed, auth_context, for_user, for_groups, allow) ==
    IF ~allow THEN Result(fed, <<"enforce_call">>, "Forbidden", EmptyDict)
    ELSE LET user_id == DictGet(auth_context, "user_id", "")
             group_ids == DictGet(auth_context, "group_ids", << >>)
             user_called == user_id # ""
             groups_called == Truthy(group_ids)
             calls1 == IF user_called THEN <<"enforce_call", "list_domains_for_user">>
                       ELSE <<"enforce_call">>
             user_refs == IF user_called /\ for_user.raised = "None"
                          THEN for_user.refs ELSE << >>
             calls2 == IF groups_called THEN Append(calls1, "list_domains_for_groups")
                       ELSE calls1
             group_refs == IF groups_called THEN for_groups.refs ELSE << >>
         IN  IF user_called /\ for_user.raised \notin {"None", "UserNotFound"}
             THEN Result(fed, calls1, for_user.raised, EmptyDict)
             ELSE IF groups_called /\ for_groups.raised # "None"
             THEN Result(fed, calls2, for_groups.raised, EmptyDict)
             ELSE Result(fed, calls2, "OK",
                         wrap_collection("domains",
                                         _combine_lists_uniquely(user_refs, group_refs)))

-----------------------------------------------------------------------------
(* OSFederationAuthResource *)

\* python values of two types under the keys of one dict: each carries its type
PyList(v) == [type |-> "list", value |-> v]
PyDict(v) == [type |-> "dict", value |-> v]

\* the dict display of _auth: the keys of 'identity' are set left to right,
\* 'methods' first, then the value of protocol_id
AuthPayload(idp_id, protocol_id) ==
    [identity |->
        DictSet(DictSet(EmptyDict, "methods", PyList(<<protocol_id>>)),
                protocol_id,
                PyDict([identity_provider |-> idp_id, protocol |-> protocol_id]))]

\* len(body)
BodyLength(body) == IF body = "" THEN "0" ELSE "2"

\* flask.make_response(body, status_code): a response of the default
\* mimetype, with the length of its data
make_response(body, status_code) ==
    [data |-> body, status_code |-> status_code,
     headers |-> << <<"Content-Type", "text/html; charset=utf-8">>,
                    <<"Content-Length", BodyLength(body)>> >>]

\* the header names of a webob header list, each at its first occurrence
RECURSIVE HeaderKeys(_)
HeaderKeys(headers) ==
    IF headers = << >> THEN << >>
    ELSE LET keys == HeaderKeys(SubSeq(headers, 1, Len(headers) - 1))
             k == headers[Len(headers)][1]
         IN  IF \E i \in 1..Len(keys) : keys[i] = k THEN keys ELSE Append(keys, k)

\* the items of a header list under one name, in order
RECURSIVE SelectPairs(_, _)
SelectPairs(headers, k) ==
    IF headers = << >> THEN << >>
    ELSE IF Head(headers)[1] = k
    THEN <<Head(headers)>> \o SelectPairs(Tail(headers), k)
    ELSE SelectPairs(Tail(headers), k)

\* the (name, value) items that Headers.extend reads off
\* webob_resp.headers.dict_of_lists(): grouped by name
RECURSIVE ItemsOfLists(_, _)
ItemsOfLists(headers, keys) ==
    IF keys = << >> THEN << >>
    ELSE SelectPairs(headers, Head(keys)) \o ItemsOfLists(headers, Tail(keys))

dict_of_lists_items(headers) == ItemsOfLists(headers, HeaderKeys(headers))

\* werkzeug Headers.extend: every item is added after those already there
headers_extend(headers, items) == headers \o items

\* a call of compat_controller.authenticate_for_token: the exception it
\* raises ("None" when it returns) and the webob response it returns
Pipeline(raised, resp) == [raised |-> raised, resp |-> resp]

\* the flask response _auth builds from the webob response
FlaskResponse(webob_resp) ==
    LET flask_resp == make_response(webob_resp.body, webob_resp.status_code)
    IN  [flask_resp EXCEPT !.headers =
            headers_extend(@, dict_of_lists_items(webob_resp.headers))]

\* mutant: a failed submission is tried once more
OSFederationAuthResource_auth_retry(fed, idp_id, protocol_id, pipeline) ==
    LET auth == AuthPayload(idp_id, protocol_id)
    IN  IF pipeline.raised # "None"
        THEN [Result(fed, <<"authenticate_for_token", "authenticate_for_token">>,
                     pipeline.raised, EmptyDict) EXCEPT !.sent = <<auth, auth>>]
        ELSE [Result(fed, <<"authenticate_for_token">>, "RESPONSE",
                     FlaskResponse(pipeline.resp)) EXCEPT !.sent = <<auth>>]

\* _auth: no policy check precedes it (get and post are unenforced_api)
OSFederationAuthResource_auth(fed, idp_id, protocol_id, pipeline) ==
    LET auth == AuthPayload(idp_id, protocol_id)
        res == IF pipeline.raised # "None"
               THEN Result(fed, <<"authenticate_for_token">>, pipeline.raised, EmptyDict)
               ELSE Result(fed, <<"authenticate_for_token">>, "RESPONSE",
                           FlaskResponse(pipeline.resp))
    IN  [res EXCEPT !.sent = <<auth>>]

\* GET/HEAD /OS-FEDERATION/identity_providers/{idp_id}/protocols/{protocol_id}/auth
OSFederationAuthResource_get(fed, idp_id, protocol_id, pipeline) ==
    OSFederationAuthResource_auth(fed, idp_id, protocol_id, pipeline)

\* POST /OS-FEDERATION/identity_providers/{idp_id}/protocols/{protocol_id}/auth
OSFederationAuthResource_post(fed, idp_id, protocol_id, pipeline) ==
    OSFederationAuthResource_auth(fed, idp_id, protocol_id, pipeline)

-----------------------------------------------------------------------------
(* Requests: what a client, the policy engine, the assignment backend and  *)
(* the token pipeline may hand to a handler.                               *)

Scopes == {"identity_providers", "mappings", "service_providers", "federated", "auth"}

\* the 'identity_provider' member of a request body; the last one has a
\* property the schema does not know
IdpDocs ==
    {EmptyDict}
    \cup {[enabled |-> e] : e \in BOOLEAN}
    \cup {[remote_ids |-> r] : r \in SUBSET RemoteIds}
    \cup {[enabled |-> e, remote_ids |-> r] : e \in BOOLEAN, r \in SUBSET RemoteIds}
    \cup {("remote-ids" :> {"r1"})}

IdpBodies == {EmptyDict} \cup {[identity_provider |-> d] : d \in IdpDocs}

IdpHints == {EmptyDict} \cup {[enabled |-> e] : e \in BOOLEAN} \cup {[id |-> i] : i \in IdpIds}

ProtocolBodies ==
    {EmptyDict} \cup {[protocol |-> [mapping_id |-> m]] : m \in MappingIds}

\* mapping documents: a valid one, one whose rule has an empty remote clause,
\* one whose placeholder {1} has no capture, one with an unknown condition,
\* one that is no rules document
MappingDocs ==
    { [rules |-> << [local |-> <<0>>, remote |-> <<"type">>] >>],
      [rules |-> << [local |-> <<0>>, remote |-> <<"type", "any_one_of">>] >>],
      [rules |-> << [local |-> <<0>>, remote |-> << >>] >>],
      [rules |-> << [local |-> <<1>>, remote |-> <<"type">>] >>],
      [rules |-> << [local |-> <<0>>, remote |-> <<"unknown">>] >>],
      [name |-> "x"] }

MappingBodies == {EmptyDict} \cup {[mapping |-> d] : d \in MappingDocs}

RelayStatePrefixes == {"ss:mem:", "custom:"}

SpDocs ==
    {EmptyDict}
    \cup {[enabled |-> e] : e \in BOOLEAN}
    \cup {[relay_state_prefix |-> r] : r \in RelayStatePrefixes}
    \cup {[enabled |-> e, relay_state_prefix |-> r] : e \in BOOLEAN, r \in RelayStatePrefixes}
    \cup {[bogus |-> TRUE]}

SpBodies == {EmptyDict} \cup {[service_provider |-> d] : d \in SpDocs}

SpHints == {EmptyDict} \cup {[enabled |-> e] : e \in BOOLEAN} \cup {[id |-> i] : i \in SpIds}

\* sequences over S of length at most n
SeqUpTo(S, n) == UNION {[1..k -> S] : k \in 0..n}

\* project or domain records
ResourceRefs ==
    {[id |-> "p1", name |-> "a"], [id |-> "p1", name |-> "b"], [id |-> "p2", name |-> "a"]}

RefLists == SeqUpTo(ResourceRefs, MaxLen)

AuthContexts ==
    {EmptyDict}
    \cup {[user_id |-> u] : u \in {"", "u1"}}
    \cup {[group_ids |-> g] : g \in {<< >>, <<"g1">>}}
    \cup {[user_id |-> u, group_ids |-> g] : u \in {"", "u1"}, g \in {<< >>, <<"g1">>}}

UserLookups ==
    {Lookup("None", refs) : refs \in RefLists}
    \cup {Lookup(e, << >>) : e \in {"UserNotFound", "Unauthorized"}}

GroupLookups ==
    {Lookup("None", refs) : refs \in RefLists}
    \cup {Lookup(e, << >>) : e \in {"UserNotFound", "GroupNotFound"}}

HeaderItems ==
    { <<"Content-Type", "application/json">>,
      <<"X-Subject-Token", "t1">>,
      <<"X-Subject-Token", "t2">> }

WebobResponses ==
    {[status_code |-> c, headers |-> h, body |-> b] :
        c \in {201, 401}, h \in SeqUpTo(HeaderItems, MaxHeaders), b \in {"", "{}"}}

NoResponse == [status_code |-> 0, headers |-> << >>, body |-> ""]

Pipelines ==
    {Pipeline("None", r) : r \in WebobResponses}
    \cup {Pipeline(e, NoResponse) : e \in {"Unauthorized", "MappingNotFound"}}

-----------------------------------------------------------------------------
(* The state machine: one action per handler *)

NoRequest ==
    [op |-> "none", args |-> EmptyDict, calls |-> << >>, outcome |-> "none",
     body |-> EmptyDict, sent |-> << >>]

EmptyFederation ==
    [idps |-> EmptyDict, protocols |-> EmptyDict, mappings |-> EmptyDict,
     sps |-> EmptyDict]

Procs == {1, 2}

Idle == [pc |-> "idle", idp_id |-> "", body |-> EmptyDict, allow |-> FALSE,
         idp |-> EmptyDict, outcome |-> "none"]

Init ==
    /\ scope \in Scopes
    /\ federation = EmptyFederation
    /\ last = NoRequest
    /\ procs = [p \in Procs |-> Idle]

\* a resource family takes a request when none is being served
Ready(family) == scope = family /\ last = NoRequest

\* a request is served in one request/response cycle: the handler runs to
\* its end, its rows are the rows and its record is the request's
Serve(op, args, res) ==
    /\ federation' = res.fed
    /\ last' = [op |-> op, args |-> args, calls |-> res.calls,
                outcome |-> res.outcome, body |-> res.body, sent |-> res.sent]
    /\ UNCHANGED <<scope, procs>>

IdpGet ==
    /\ Ready("identity_providers")
    /\ \E idp_id \in IdpIds, allow \in BOOLEAN :
          Serve("IdentityProvidersResource.get",
                [idp_id |-> idp_id, allow |-> allow],
                IdentityProvidersResource_get_idp(federation, idp_id, allow))

IdpList ==
    /\ Ready("identity_providers")
    /\ \E hints \in IdpHints, allow \in BOOLEAN :
          Serve("IdentityProvidersResource.list",
                [hints |-> hints, allow |-> allow],
                IdentityProvidersResource_list_idps(federation, hints, allow))

IdpPut ==
    /\ Ready("identity_providers")
    /\ \E idp_id \in IdpIds, body \in IdpBodies, allow \in BOOLEAN :
          Serve("IdentityProvidersResource.put",
                [idp_id |-> idp_id, body |-> body, allow |-> allow],
                IdentityProvidersResource_put(federation, idp_id, body, allow))

IdpPatch ==
    /\ Ready("identity_providers")
    /\ \E idp_id \in IdpIds, body \in IdpBodies, allow \in BOOLEAN :
          Serve("IdentityProvidersResource.patch",
                [idp_id |-> idp_id, body |-> body, allow |-> allow],
                IdentityProvidersResource_patch(federation, idp_id, body, allow))

IdpDelete ==
    /\ Ready("identity_providers")
    /\ \E idp_id \in IdpIds, allow \in BOOLEAN :
          Serve("IdentityProvidersResource.delete",
                [idp_id |-> idp_id, allow |-> allow],
                IdentityProvidersResource_delete(federation, idp_id, allow))

ProtocolGet ==
    /\ Ready("identity_providers")
    /\ \E idp_id \in IdpIds, protocol_id \in ProtocolIds, allow \in BOOLEAN :
          Serve("IdentityProvidersProtocolsResource.get",
                [idp_id |-> idp_id, protocol_id |-> protocol_id, allow |-> allow],
                IdentityProvidersProtocolsResource_get_protocol(
                    federation, idp_id, protocol_id, allow))

ProtocolList ==
    /\ Ready("identity_providers")
    /\ \E idp_id \in IdpIds, allow \in BOOLEAN :
          Serve("IdentityProvidersProtocolsResource.list",
                [idp_id |-> idp_id, allow |-> allow],
                IdentityProvidersProtocolsResource_list_protocols(
                    federation, idp_id, allow))

ProtocolPut ==
    /\ Ready("identity_providers")
    /\ \E idp_id \in IdpIds, protocol_id \in ProtocolIds,
          body \in ProtocolBodies, allow \in BOOLEAN :
          Serve("IdentityProvidersProtocolsResource.put",
                [idp_id |-> idp_id, protocol_id |-> protocol_id,
                 body |-> body, allow |-> allow],
                IdentityProvidersProtocolsResource_put(
                    federation, idp_id, protocol_id, body, allow))

ProtocolPatch ==
    /\ Ready("identity_providers")
    /\ \E idp_id \in IdpIds, protocol_id \in ProtocolIds,
          body \in ProtocolBodies, allow \in BOOLEAN :
          Serve("IdentityProvidersProtocolsResource.patch",
                [idp_id |-> idp_id, protocol_id |-> protocol_id,
                 body |-> body, allow |-> allow],
                IdentityProvidersProtocolsResource_patch(
                    federation, idp_id, protocol_id, body, allow))

ProtocolDelete ==
    /\ Ready("identity_providers")
    /\ \E idp_id \in IdpIds, protocol_id \in ProtocolIds, allow \in BOOLEAN :
          Serve("IdentityProvidersProtocolsResource.delete",
                [idp_id |-> idp_id, protocol_id |-> protocol_id, allow |-> allow],
                IdentityProvidersProtocolsResource_delete(
                    federation, idp_id, protocol_id, allow))

MappingGet ==
    /\ Ready("mappings")
    /\ \E mapping_id \in MappingIds, allow \in BOOLEAN :
          Serve("MappingResource.get",
                [mapping_id |-> mapping_id, allow |-> allow],
                MappingResource_get_mapping(federation, mapping_id, allow))

MappingList ==
    /\ Ready("mappings")
    /\ \E allow \in BOOLEAN :
          Serve("MappingResource.list", [allow |-> allow],
                MappingResource_list_mappings(federation, allow))

MappingPut ==
    /\ Ready("mappings")
    /\ \E mapping_id \in MappingIds, body \in MappingBodies, allow \in BOOLEAN :
          Serve("MappingResource.put",
                [mapping_id |-> mapping_id, body |-> body, allow |-> allow],
                MappingResource_put(federation, mapping_id, body, allow))

MappingPatch ==
    /\ Ready("mappings")
    /\ \E mapping_id \in MappingIds, body \in MappingBodies, allow \in BOOLEAN :
          Serve("MappingResource.patch",
                [mapping_id |-> mapping_id, body |-> body, allow |-> allow],
                MappingResource_patch(federation, mapping_id, body, allow))

MappingDelete ==
    /\ Ready("mappings")
    /\ \E mapping_id \in MappingIds, allow \in BOOLEAN :
          Serve("MappingResource.delete",
                [mapping_id |-> mapping_id, allow |-> allow],
                MappingResource_delete(federation, mapping_id, allow))

SpGet ==
    /\ Ready("service_providers")
    /\ \E sp_id \in SpIds, allow \in BOOLEAN :
          Serve("ServiceProvidersResource.get",
                [sp_id |-> sp_id, allow |-> allow],
                ServiceProvidersResource_get_service_provider(federation, sp_id, allow))

SpList ==
    /\ Ready("service_providers")
    /\ \E hints \in SpHints, allow \in BOOLEAN :
          Serve("ServiceProvidersResource.list",
                [hints |-> hints, allow |-> allow],
                ServiceProvidersResource_list_service_providers(federation, hints, allow))

SpPut ==
    /\ Ready("service_providers")
    /\ \E sp_id \in SpIds, body \in SpBodies, allow \in BOOLEAN :
          Serve("ServiceProvidersResource.put",
                [sp_id |-> sp_id, body |-> body, allow |-> allow],
                ServiceProvidersResource_put(federation, sp_id, body, allow))

SpPatch ==
    /\ Ready("service_providers")
    /\ \E sp_id \in SpIds, body \in SpBodies, allow \in BOOLEAN :
          Serve("ServiceProvidersResource.patch",
                [sp_id |-> sp_id, body |-> body, allow |-> allow],
                ServiceProvidersResource_patch(federation, sp_id, body, allow))

SpDelete ==
    /\ Ready("service_providers")
    /\ \E sp_id \in SpIds, allow \in BOOLEAN :
          Serve("ServiceProvidersResource.delete",
                [sp_id |-> sp_id, allow |-> allow],
                ServiceProvidersResource_delete(federation, sp_id, allow))

ProjectsGet ==
    /\ Ready("federated")
    /\ \E auth_context \in AuthContexts, for_user \in UserLookups,
          for_groups \in GroupLookups, allow \in BOOLEAN :
          Serve("OSFederationProjectResource.get",
                [auth_context |-> auth_context, for_user |-> for_user,
                 for_groups |-> for_groups, allow |-> allow],
                OSFederationProjectResource_get(
                    federation, auth_context, for_user, for_groups, allow))

DomainsGet ==
    /\ Ready("federated")
    /\ \E auth_context \in AuthContexts, for_user \in UserLookups,
          for_groups \in GroupLookups, allow \in BOOLEAN :
          Serve("OSFederationDomainResource.get",
                [auth_context |-> auth_context, for_user |-> for_user,
                 for_groups |-> for_groups, allow |-> allow],
                OSFederationDomainResource_get(
                    federation, auth_context, for_user, for_groups, allow))

\* _combine_lists_uniquely applied to two lists
Combine ==
    /\ Ready("federated")
    /\ \E a \in RefLists, b \in RefLists :
          Serve("_combine_lists_uniquely", [a |-> a, b |-> b],
                Result(federation, << >>, "OK", _combine_lists_uniquely(a, b)))

AuthGet ==
    /\ Ready("auth")
    /\ \E idp_id \in IdpIds, protocol_id \in ProtocolIds, pipeline \in Pipelines :
          Serve("OSFederationAuthResource.get",
                [idp_id |-> idp_id, protocol_id |-> protocol_id, pipeline |-> pipeline],
                OSFederationAuthResource_get(federation, idp_id, protocol_id, pipeline))

AuthPost ==
    /\ Ready("auth")
    /\ \E idp_id \in IdpIds, protocol_id \in ProtocolIds, pipeline \in Pipelines :
          Serve("OSFederationAuthResource.post",
                [idp_id |-> idp_id, protocol_id |-> protocol_id, pipeline |-> pipeline],
                OSFederationAuthResource_post(federation, idp_id, protocol_id, pipeline))

\* the response has gone to the client: nothing of the request is kept
Return ==
    /\ last # NoRequest
    /\ last' = NoRequest
    /\ UNCHANGED <<scope, federation, procs>>

Next ==
    \/ IdpGet \/ IdpList \/ IdpPut \/ IdpPatch \/ IdpDelete
    \/ ProtocolGet \/ ProtocolList \/ ProtocolPut \/ ProtocolPatch \/ ProtocolDelete
    \/ MappingGet \/ MappingList \/ MappingPut \/ MappingPatch \/ MappingDelete
    \/ SpGet \/ SpList \/ SpPut \/ SpPatch \/ SpDelete
    \/ ProjectsGet \/ DomainsGet \/ Combine
    \/ AuthGet \/ AuthPost
    \/ Return

Spec == Init /\ [][Next]_vars

-----------------------------------------------------------------------------
(* Two PUT /OS-FEDERATION/identity_providers/{idp_id} requests served by   *)
(* two workers at once.  A worker is at one line of                        *)
(* IdentityProvidersResource.put; the backend call is one atomic step.     *)

\* the request reaches the worker
PutReceive(p) ==
    /\ procs[p].pc = "idle"
    /\ \E idp_id \in IdpIds, body \in IdpBodies, allow \in BOOLEAN :
          procs' = [procs EXCEPT ![p] =
                       [Idle EXCEPT !.pc = "enforce", !.idp_id = idp_id,
                                    !.body = body, !.allow = allow]]
    /\ UNCHANGED <<scope, federation, last>>

\* ENFORCER.enforce_call(action='identity:create_identity_provider')
PutEnforce(p) ==
    /\ procs[p].pc = "enforce"
    /\ procs' = [procs EXCEPT ![p] =
                    IF procs[p].allow THEN [@ EXCEPT !.pc = "validate"]
                    ELSE [@ EXCEPT !.pc = "done", !.outcome = "Forbidden"]]
    /\ UNCHANGED <<scope, federation, last>>

\* lazy_validate, _normalize_dict and setdefault
PutValidate(p) ==
    /\ procs[p].pc = "validate"
    /\ LET body == DictGet(procs[p].body, "identity_provider", EmptyDict)
       IN  procs' = [procs EXCEPT ![p] =
                        IF lazy_validate(identity_provider_properties, {}, body)
                        THEN [@ EXCEPT !.pc = "create",
                                       !.idp = setdefault(_normalize_dict(body),
                                                          "enabled", FALSE)]
                        ELSE [@ EXCEPT !.pc = "done", !.outcome = "ValidationError"]]
    /\ UNCHANGED <<scope, federation, last>>

\* mutant: a Conflict of the backend is swallowed and the create reported
PutCreate_conflict_swallowed(p) ==
    /\ procs[p].pc = "create"
    /\ LET r == create_idp(federation, procs[p].idp_id, procs[p].idp)
       IN  /\ federation' = r.fed
           /\ procs' = [procs EXCEPT ![p] = [@ EXCEPT !.pc = "done", !.outcome = "CREATED"]]
    /\ UNCHANGED <<scope, last>>

\* PROVIDERS.federation_api.create_idp(idp_id, idp) and the return
PutCreate(p) ==
    /\ procs[p].pc = "create"
    /\ LET r == create_idp(federation, procs[p].idp_id, procs[p].idp)
       IN  /\ federation' = r.fed
           /\ procs' = [procs EXCEPT ![p] =
                           [@ EXCEPT !.pc = "done",
                                     !.outcome = IF r.raised = "None" THEN "CREATED"
                                                 ELSE r.raised]]
    /\ UNCHANGED <<scope, last>>

ConcInit ==
    /\ scope = "identity_providers"
    /\ federation = EmptyFederation
    /\ last = NoRequest
    /\ procs = [p \in Procs |-> Idle]

ConcNext ==
    \E p \in Procs : PutReceive(p) \/ PutEnforce(p) \/ PutValidate(p) \/ PutCreate(p)

ConcSpec == ConcInit /\ [][ConcNext]_vars

-----------------------------------------------------------------------------
(* Properties *)

AuthOps == {"OSFederationAuthResource.get", "OSFederationAuthResource.post"}

AggregatorOps == {"OSFederationProjectResource.get", "OSFederationDomainResource.get"}

RegistryOps ==
    {r \o m : r \in {"IdentityProvidersResource", "IdentityProvidersProtocolsResource",
                     "MappingResource", "ServiceProvidersResource"},
              m \in {".get", ".list", ".put", ".patch", ".delete"}}

\* the calls that reach the store, the assignment lookup or the token pipeline
IsGate(call) == call = "enforce_call"
IsCheck(call) == call \in {"lazy_validate", "validate_mapping_structure"}
Downstream(calls) == {i \in 1..Len(calls) : ~IsGate(calls[i]) /\ ~IsCheck(calls[i])}

\* C1 (as claimed): the payload the authentication bridge submits has
\* identity.methods equal to the one-element list [protocol_id] and
\* identity[protocol_id] equal to {identity_provider: idp_id, protocol:
\* protocol_id}, for every idp_id and protocol_id the route accepts.
C1_PayloadShape ==
    last.op \in AuthOps =>
        LET identity == last.sent[1].identity
            idp_id == last.args.idp_id
            protocol_id == last.args.protocol_id
        IN  /\ Len(last.sent) = 1
            /\ "methods" \in DOMAIN identity
            /\ identity["methods"].type = "list"
            /\ identity["methods"].value = <<protocol_id>>
            /\ protocol_id \in DOMAIN identity
            /\ identity[protocol_id].type = "dict"
            /\ identity[protocol_id].value =
                  [identity_provider |-> idp_id, protocol |-> protocol_id]

\* the ids of a list, as a set
IdSet(refs) == {refs[i].id : i \in 1..Len(refs)}

\* no id occurs twice in the list
NoRepeatedId(refs) ==
    \A i, j \in 1..Len(refs) : refs[i].id = refs[j].id => i = j

\* C2 (as claimed): for any two lists of records with an id,
\* _combine_lists_uniquely(a, b) contains exactly the ids that occur in a or
\* in b, and no id more than once.
C2_UniqueForAnyLists ==
    last.op = "_combine_lists_uniquely" =>
        /\ IdSet(last.body) = IdSet(last.args.a) \cup IdSet(last.args.b)
        /\ NoRepeatedId(last.body)

\* C2 (amended): _combine_lists_uniquely(a, b) contains exactly the ids that
\* occur in a or in b; it contains no id more than once when both lists are
\* non-empty, and otherwise it is the other list as it stands, so that it
\* repeats an id exactly when that list does.
C2_UniqueWhenBothFilled ==
    last.op = "_combine_lists_uniquely" =>
        LET a == last.args.a
            b == last.args.b
        IN  /\ IdSet(last.body) = IdSet(a) \cup IdSet(b)
            /\ (a # << >> /\ b # << >>) => NoRepeatedId(last.body)
            /\ (a = << >> \/ b = << >>) =>
                  (NoRepeatedId(last.body) <=> NoRepeatedId(a \o b))

\* C2 witness: two non-empty lists that share an id have been combined
C2_Witness ==
    /\ last.op = "_combine_lists_uniquely"
    /\ last.args.a # << >> /\ last.args.b # << >>
    /\ IdSet(last.args.a) \cap IdSet(last.args.b) # {}
    /\ Len(last.body) < Len(last.args.a) + Len(last.args.b)

\* the policy gate is the first call, and after a forbid the only one
GateFirst ==
    /\ last.calls # << >>
    /\ IsGate(last.calls[1])
    /\ Downstream(last.calls) # {} => last.args.allow
    /\ ~last.args.allow => last.calls = <<"enforce_call">> /\ last.outcome = "Forbidden"

\* C3 (as claimed): every core operation - the registry handlers, the two
\* aggregators and the authentication bridge - calls the policy gate before
\* its first call to the store, the assignment lookup or the token pipeline.
C3_EveryOperationGated ==
    last.op \in RegistryOps \cup AggregatorOps \cup AuthOps =>
        /\ last.calls # << >>
        /\ IsGate(last.calls[1])

\* C3 (amended): every registry handler and both aggregators call the policy
\* gate before their first call to the store or the assignment lookup, and
\* when the gate forbids they make no such call and change no row; the
\* authentication bridge is an unenforced API: it never calls the gate and
\* submits to the token pipeline whatever the policy.
C3_RegistriesAndAggregatorsGated ==
    [][ /\ last'.op \in RegistryOps \cup AggregatorOps =>
              /\ GateFirst'
              /\ last'.outcome = "Forbidden" => federation' = federation
        /\ last'.op \in AuthOps =>
              /\ \A i \in 1..Len(last'.calls) : ~IsGate(last'.calls[i])
              /\ Downstream(last'.calls) # {} ]_vars

\* C3 witness: a forbidden delete of an identity provider that exists
C3_Witness ==
    /\ last.op = "IdentityProvidersResource.delete"
    /\ last.outcome = "Forbidden"
    /\ last.args.idp_id \in DOMAIN federation.idps

\* the mapping document a create or update of a mapping validates
MappingDocument(body) == _normalize_dict(DictGet(body, "mapping", EmptyDict))

\* C4: create and update of a mapping validate the document before any call
\* to the store: a structurally invalid document never reaches
\* create_mapping or update_mapping, the outcome is never Conflict or
\* NotFound, and once the policy gate has allowed the request it is the
\* validator's ValidationError - also when create names an id that exists
\* and when update names one that does not.
C4_ValidatedBeforeStore ==
    [][ ( /\ last'.op \in {"MappingResource.put", "MappingResource.patch"}
          /\ ~validate_mapping_structure(MappingDocument(last'.args.body)) )
        => /\ Downstream(last'.calls) = {}
           /\ last'.outcome \notin {"Conflict", "MappingNotFound", "CREATED", "OK"}
           /\ last'.args.allow =>
                 /\ last'.outcome = "ValidationError"
                 /\ last'.calls = <<"enforce_call", "validate_mapping_structure">>
           /\ federation' = federation ]_vars

\* C4 witness: an invalid document was put under an id that already exists
C4_Witness ==
    /\ last.op = "MappingResource.put"
    /\ last.args.mapping_id \in DOMAIN federation.mappings
    /\ last.args.allow
    /\ ~validate_mapping_structure(MappingDocument(last.args.body))
    /\ last.outcome = "ValidationError"

\* the number of items of a list equal to x
RECURSIVE Count(_, _)
Count(list, x) ==
    IF list = << >> THEN 0
    ELSE (IF Head(list) = x THEN 1 ELSE 0) + Count(Tail(list), x)

\* two header lists hold the same items, each as often
SameItems(h1, h2) ==
    \A x \in {h1[i] : i \in 1..Len(h1)} \cup {h2[i] : i \in 1..Len(h2)} :
        Count(h1, x) = Count(h2, x)

\* C5 (as claimed): the bridge's response has the status code, the body and
\* exactly the headers of the pipeline's result: none added, dropped or
\* duplicated.
C5_ResponseVerbatim ==
    (last.op \in AuthOps /\ last.args.pipeline.raised = "None") =>
        LET webob_resp == last.args.pipeline.resp
        IN  /\ last.outcome = "RESPONSE"
            /\ last.body.status_code = webob_resp.status_code
            /\ last.body.data = webob_resp.body
            /\ SameItems(last.body.headers, webob_resp.headers)

\* C6: a call of the authentication bridge submits to the token pipeline
\* exactly once and calls no other collaborator; a pipeline failure is the
\* call's outcome, unchanged, with no second submission; a returned result
\* keeps its status and body; the call writes no row that a later call
\* could read.
C6_OneSubmission ==
    [][ /\ last'.op \in AuthOps =>
              /\ last'.calls = <<"authenticate_for_token">>
              /\ last'.sent = <<AuthPayload(last'.args.idp_id, last'.args.protocol_id)>>
              /\ last'.args.pipeline.raised # "None" =>
                    /\ last'.outcome = last'.args.pipeline.raised
                    /\ last'.body = EmptyDict
              /\ last'.args.pipeline.raised = "None" =>
                    /\ last'.outcome = "RESPONSE"
                    /\ last'.body.status_code = last'.args.pipeline.resp.status_code
                    /\ last'.body.data = last'.args.pipeline.resp.body
              /\ federation' = federation ]_vars

\* C6 witness: the pipeline failed a bridge call
C6_Witness ==
    /\ last.op \in AuthOps
    /\ last.args.pipeline.raised = "Unauthorized"
    /\ last.outcome = "Unauthorized"

\* the lookups an aggregator calls, and the key of its collection
UserCall(op) == IF op = "OSFederationProjectResource.get"
                THEN "list_projects_for_user" ELSE "list_domains_for_user"
GroupsCall(op) == IF op = "OSFederationProjectResource.get"
                  THEN "list_projects_for_groups" ELSE "list_domains_for_groups"
CollectionName(op) == IF op = "OSFederationProjectResource.get"
                      THEN "projects" ELSE "domains"
Called(calls, call) == \E i \in 1..Len(calls) : calls[i] = call

\* C7: in both aggregators, once the gate has allowed the request: with a
\* user_id whose lookup raises UserNotFound the operation succeeds with
\* exactly the group-derived resources (none when group_ids is empty); any
\* other failure of the user lookup and any failure of the group lookup is
\* the outcome; without a user_id the user lookup is not called, and with
\* empty group_ids the group lookup is not called.
C7_OnlyUserNotFoundSwallowed ==
    (last.op \in AggregatorOps /\ last.args.allow) =>
        LET user_id == DictGet(last.args.auth_context, "user_id", "")
            group_ids == DictGet(last.args.auth_context, "group_ids", << >>)
            for_user == last.args.for_user
            for_groups == last.args.for_groups
            user_fails == user_id # "" /\ for_user.raised \notin {"None", "UserNotFound"}
            groups_fail == group_ids # << >> /\ for_groups.raised # "None"
        IN  /\ (user_id # "" /\ for_user.raised = "UserNotFound" /\ ~groups_fail) =>
                  /\ last.outcome = "OK"
                  /\ last.body[CollectionName(last.op)] =
                        (IF group_ids = << >> THEN << >> ELSE for_groups.refs)
            /\ user_fails => last.outcome = for_user.raised
            /\ (groups_fail /\ ~user_fails) => last.outcome = for_groups.raised
            /\ Called(last.calls, UserCall(last.op)) <=> user_id # ""
            /\ Called(last.calls, GroupsCall(last.op)) <=>
                  (group_ids # << >> /\ ~user_fails)

\* C7 witness: the user lookup raised UserNotFound and the groups gave
\* resources
C7_Witness ==
    /\ last.op \in AggregatorOps
    /\ last.args.allow
    /\ DictGet(last.args.auth_context, "user_id", "") # ""
    /\ last.args.for_user.raised = "UserNotFound"
    /\ DictGet(last.args.auth_context, "group_ids", << >>) # << >>
    /\ last.args.for_groups.raised = "None"
    /\ last.args.for_groups.refs # << >>
    /\ last.outcome = "OK"

\* the fields of a request document as the handler passes them on
Supplied(body, member) == _normalize_dict(DictGet(body, member, EmptyDict))

\* C8: create fills only the fields the caller omitted.  An identity
\* provider created without 'enabled' is stored, and returned by a following
\* get of its id, with that id and enabled = false; a service provider
\* created without 'enabled' gets enabled = false, and without
\* 'relay_state_prefix' the configured default; every field the caller
\* supplied reaches the store as supplied.
C8_CreateDefaults ==
    /\ (last.op = "IdentityProvidersResource.put" /\ last.outcome = "CREATED") =>
          LET idp_id == last.args.idp_id
              doc == Supplied(last.args.body, "identity_provider")
              row == federation.idps[idp_id]
              got == IdentityProvidersResource_get_idp(federation, idp_id, TRUE)
          IN  /\ idp_id \in DOMAIN federation.idps
              /\ DOMAIN row = DOMAIN doc \cup {"id", "enabled"}
              /\ row.id = idp_id
              /\ \A k \in DOMAIN doc : row[k] = doc[k]
              /\ "enabled" \notin DOMAIN doc => row.enabled = FALSE
              /\ got.outcome = "OK"
              /\ got.body.identity_provider.id = idp_id
              /\ got.body.identity_provider.enabled = row.enabled
              /\ last.body.identity_provider.enabled = row.enabled
    /\ (last.op = "ServiceProvidersResource.put" /\ last.outcome = "CREATED") =>
          LET sp_id == last.args.sp_id
              doc == Supplied(last.args.body, "service_provider")
              row == federation.sps[sp_id]
              got == ServiceProvidersResource_get_service_provider(federation, sp_id, TRUE)
          IN  /\ sp_id \in DOMAIN federation.sps
              /\ DOMAIN row = DOMAIN doc \cup {"id", "enabled", "relay_state_prefix"}
              /\ row.id = sp_id
              /\ \A k \in DOMAIN doc : row[k] = doc[k]
              /\ "enabled" \notin DOMAIN doc => row.enabled = FALSE
              /\ "relay_state_prefix" \notin DOMAIN doc =>
                    row.relay_state_prefix = CONF_saml_relay_state_prefix
              /\ got.outcome = "OK"
              /\ got.body.service_provider.enabled = row.enabled
              /\ got.body.service_provider.relay_state_prefix = row.relay_state_prefix

\* C8 witness: an identity provider was created with enabled = true supplied
C8_Witness ==
    /\ last.op = "IdentityProvidersResource.put"
    /\ last.outcome = "CREATED"
    /\ "enabled" \in DOMAIN Supplied(last.args.body, "identity_provider")
    /\ federation.idps[last.args.idp_id].enabled = TRUE

\* no two identity providers share a remote id
RemoteIdsUnique(fed) ==
    \A i, j \in DOMAIN fed.idps :
        i # j => RemoteIdsOf(fed.idps[i]) \cap RemoteIdsOf(fed.idps[j]) = {}

\* the request reached the store: the gate allowed it and its document
\* passed the schema
ReachedStore(req) == Downstream(req.calls) # {}

\* C9: after any sequence of creates, updates and deletes no two identity
\* providers share a remote id; a create or an update whose remote_ids
\* collide with another identity provider's fails with Conflict; a Conflict
\* leaves every row as it was; an update is checked against the other
\* identity providers and not against the remote ids the identity provider
\* itself holds.
C9_RemoteIdsUnique ==
    [][ /\ RemoteIdsUnique(federation')
        /\ ( /\ last'.op \in {"IdentityProvidersResource.put",
                              "IdentityProvidersResource.patch"}
             /\ ReachedStore(last') ) =>
              LET idp_id == last'.args.idp_id
                  doc == Supplied(last'.args.body, "identity_provider")
                  collides == RemoteIdsOf(doc) \cap RemoteIdsOfOthers(federation, idp_id) # {}
                  exists == idp_id \in DOMAIN federation.idps
                  create == last'.op = "IdentityProvidersResource.put"
              IN  /\ (collides /\ (create \/ exists)) => last'.outcome = "Conflict"
                  /\ last'.outcome = "Conflict" => federation' = federation
                  /\ (~create /\ exists /\ ~collides) =>
                        /\ last'.outcome = "OK"
                        /\ RemoteIdsOf(federation'.idps[idp_id]) =
                              (IF "remote_ids" \in DOMAIN doc THEN doc.remote_ids
                               ELSE RemoteIdsOf(federation.idps[idp_id])) ]_vars

\* C9 witness: an update that names a remote id of another identity provider
\* has failed with Conflict
C9_Witness ==
    /\ last.op = "IdentityProvidersResource.patch"
    /\ last.outcome = "Conflict"
    /\ last.args.idp_id \in DOMAIN federation.idps
    /\ \E j \in DOMAIN federation.idps :
          /\ j # last.args.idp_id
          /\ RemoteIdsOf(federation.idps[j])
                \cap RemoteIdsOf(Supplied(last.args.body, "identity_provider")) # {}

\* the two concurrent creates collide: the same id, or remote ids in common
Colliding ==
    \/ procs[1].idp_id = procs[2].idp_id
    \/ RemoteIdsOf(procs[1].idp) \cap RemoteIdsOf(procs[2].idp) # {}

\* C10: under any interleaving of two concurrent creates of an identity
\* provider with the same id, or with different ids and overlapping
\* remote_ids, at most one succeeds; the other fails with Conflict and the
\* registry holds only the record of the one that succeeded.
C10_OneCreateWins ==
    ( /\ \A p \in Procs : procs[p].pc = "done"
      /\ \A p \in Procs : procs[p].outcome \in {"CREATED", "Conflict"}
      /\ Colliding ) =>
        \E w \in Procs :
            /\ procs[w].outcome = "CREATED"
            /\ \A p \in Procs \ {w} : procs[p].outcome = "Conflict"
            /\ federation.idps =
                  (procs[w].idp_id :> DictSet(procs[w].idp, "id", procs[w].idp_id))

\* C10 witness: two creates with different ids and a common remote id have
\* both run to their end
C10_Witness ==
    /\ \A p \in Procs : procs[p].pc = "done"
    /\ procs[1].idp_id # procs[2].idp_id
    /\ RemoteIdsOf(procs[1].idp) \cap RemoteIdsOf(procs[2].idp) # {}
    /\ procs[1].outcome = "Conflict"
    /\ procs[2].outcome = "CREATED"

\* C11: a create of a protocol under an idp_id that names no identity
\* provider fails with NotFound and writes no protocol row, for every
\* protocol_id and every body that passes the schema, once the policy gate
\* has allowed the request; a forbidden one writes nothing either.
C11_NoOrphanProtocol ==
    [][ ( /\ last'.op = "IdentityProvidersProtocolsResource.put"
          /\ last'.args.idp_id \notin DOMAIN federation.idps ) =>
        /\ federation' = federation
        /\ last'.outcome \notin {"CREATED", "OK"}
        /\ ( /\ last'.args.allow
             /\ lazy_validate(protocol_properties, {"mapping_id"},
                              DictGet(last'.args.body, "protocol", EmptyDict)) ) =>
              /\ last'.outcome = "IdentityProviderNotFound"
              /\ last'.calls = <<"enforce_call", "lazy_validate", "create_protocol">> ]_vars

\* C11 witness: a valid protocol was put under an identity provider that
\* does not exist, while another one does
C11_Witness ==
    /\ last.op = "IdentityProvidersProtocolsResource.put"
    /\ last.args.allow
    /\ "protocol" \in DOMAIN last.args.body
    /\ last.args.idp_id \notin DOMAIN federation.idps
    /\ DOMAIN federation.idps # {}
    /\ last.outcome = "IdentityProviderNotFound"

\* C12: when at least one of the two lists is empty,
\* _combine_lists_uniquely returns the other list as it is - the same
\* records in the same order, a repeated id included, which no dict of ids
\* would keep - and the empty list when both are empty.
C12_OtherListAsIs ==
    last.op = "_combine_lists_uniquely" =>
        LET a == last.args.a
            b == last.args.b
        IN  /\ b = << >> => last.body = a
            /\ a = << >> => last.body = b
            /\ (a = << >> /\ b = << >>) => last.body = << >>

\* C12 witness: a list that repeats an id was combined with the empty list
C12_Witness ==
    /\ last.op = "_combine_lists_uniquely"
    /\ last.args.a = << >>
    /\ Len(last.args.b) > 1
    /\ ~NoRepeatedId(last.args.b)
    /\ last.body = last.args.b

====
